---- MODULE Spec2Model ----
(***************************************************************************)
(* Road-haulage quote calculator (quote_calculator.py).                    *)
(*                                                                         *)
(* The calculator is built once from three tables (pricing, zones,         *)
(* surcharges) and then answers calls.  Every call is one action; the      *)
(* arguments of the last call and everything it computed are kept in       *)
(* `call` and `ret`.                                                       *)
(*                                                                         *)
(* Numbers.  Python floats are modelled as exact decimals held in scaled   *)
(* integers: money in units of 1/100000 GBP (MoneyScale to the pound),     *)
(* weights in grams, volumes in litres.             The values the model   *)
(* draws are chosen so that every round(x, 2) it meets is either no tie or *)
(* an exact one, where Python rounds half to even as Round2 does.          *)
(***************************************************************************)
EXTENDS Integers, Sequences, FiniteSets, TLC

(***************************************************************************)
(* Text: the str methods and regular expressions the code uses.            *)
(***************************************************************************)
UpperLetters == "ABCDEFGHIJKLMNOPQRSTUVWXYZ"

LowerLetters == "abcdefghijklmnopqrstuvwxyz"

DigitChars == "0123456789"

Ch(s, i) == SubSeq(s, i, i)

IndexIn(alphabet, c) ==
    IF \E i \in 1..Len(alphabet) : Ch(alphabet, i) = c
    THEN CHOOSE i \in 1..Len(alphabet) : Ch(alphabet, i) = c
    ELSE 0

CharsOf(alphabet) == {Ch(alphabet, i) : i \in 1..Len(alphabet)}

UpperSet == CharsOf(UpperLetters)

LowerSet == CharsOf(LowerLetters)

DigitSet == CharsOf(DigitChars)

ToUpper == [c \in LowerSet |-> Ch(UpperLetters, IndexIn(LowerLetters, c))]

ToLower == [c \in UpperSet |-> Ch(LowerLetters, IndexIn(UpperLetters, c))]

ToDigit == [c \in DigitSet |-> IndexIn(DigitChars, c) - 1]

IsUpper(c) == c \in UpperSet

IsLower(c) == c \in LowerSet

IsDigit(c) == c \in DigitSet

IsLetter(c) == IsUpper(c) \/ IsLower(c)

DigitVal(c) == ToDigit[c]

RECURSIVE upper(_)
upper(s) ==
    IF s = "" THEN ""
    ELSE (IF IsLower(Head(s)) THEN ToUpper[Head(s)] ELSE Head(s)) \o upper(Tail(s))

RECURSIVE lower(_)
lower(s) ==
    IF s = "" THEN ""
    ELSE (IF IsUpper(Head(s)) THEN ToLower[Head(s)] ELSE Head(s)) \o lower(Tail(s))

RECURSIVE lstrip(_)
lstrip(s) == IF s # "" /\ Head(s) = " " THEN lstrip(Tail(s)) ELSE s

RECURSIVE rstrip(_)
rstrip(s) ==
    IF s # "" /\ Ch(s, Len(s)) = " " THEN rstrip(SubSeq(s, 1, Len(s) - 1)) ELSE s

strip(s) == rstrip(lstrip(s))

\* sub in s
Contains(s, sub) ==
    \E i \in 1..(Len(s) - Len(sub) + 1) : SubSeq(s, i, i + Len(sub) - 1) = sub

startswith(s, pre) == Len(pre) <= Len(s) /\ SubSeq(s, 1, Len(pre)) = pre

\* s.replace(old, ''), old not empty: every occurrence, left to right
RECURSIVE remove(_, _)
remove(s, old) ==
    IF s = "" THEN ""
    ELSE IF startswith(s, old) THEN remove(SubSeq(s, Len(old) + 1, Len(s)), old)
    ELSE Head(s) \o remove(Tail(s), old)

\* the text before the first sep (all of s when sep is not in it)
RECURSIVE before(_, _)
before(s, sep) ==
    IF s = "" \/ Head(s) = sep THEN "" ELSE Head(s) \o before(Tail(s), sep)

\* the text after the first sep
RECURSIVE after(_, _)
after(s, sep) ==
    IF s = "" THEN "" ELSE IF Head(s) = sep THEN Tail(s) ELSE after(Tail(s), sep)

\* s.split()[0] of a text that is not blank
first_word(s) == before(lstrip(s), " ")

\* s.split(sep)[1] of a text that holds sep
second_part(s, sep) == before(after(s, sep), sep)

\* the longest run of characters of the class at the start of s, at most `most` long
RECURSIVE leading(_, _, _)
leading(s, class, most) ==
    IF s = "" \/ most = 0 \/ Head(s) \notin class THEN ""
    ELSE Head(s) \o leading(Tail(s), class, most - 1)

\* re.search(r'\d+', s): the first run of digits, "" when there is none
RECURSIVE first_digits(_)
first_digits(s) ==
    IF s = "" THEN ""
    ELSE IF IsDigit(Head(s)) THEN leading(s, DigitSet, Len(s))
    ELSE first_digits(Tail(s))

RECURSIVE digits_value(_, _)
digits_value(s, acc) ==
    IF s = "" THEN acc ELSE digits_value(Tail(s), 10 * acc + DigitVal(Head(s)))

\* int(s) raises ValueError
ValueError == -1

\* int(s): blanks around the digits are accepted, anything else raises
int(s) ==
    LET t == strip(s)
    IN  IF t # "" /\ leading(t, DigitSet, Len(t)) = t THEN digits_value(t, 0)
        ELSE ValueError

(***************************************************************************)
(* The tables, loaded once by __init__.                                    *)
(***************************************************************************)
VARIABLES pricing_data, zones_data, surcharges_data, call, ret

vars == <<pricing_data, zones_data, surcharges_data, call, ret>>

None == [kind |-> "None"]

\* the one element of a set of one element: the({e(x) : x \in {v}}) is e(v) with v
\* worked out once, as a local variable of the code is assigned once
the(S) == CHOOSE v \in S : TRUE

\* bool(v) of None, a number or a text
truthy(v) ==
    CASE v.kind = "None" -> FALSE
      [] v.kind = "str" -> v.s # ""
      [] OTHER -> v.val # 0

(***************************************************************************)
(* _find_zone_by_postcode                                                  *)
(***************************************************************************)
\* the number the code compares with a row's bounds: the first run of digits of
\* the cleaned postcode with every occurrence of the row's base letters removed
prefix_num_match(postcode_clean, base) == first_digits(remove(postcode_clean, base))

\* a row 'XX<low>-<high>': the code takes range_part = split('-')[1], in which
\* no '-' can be left, so only its "single number" comparison is ever made
range_row_matches(zone_prefix, postcode_clean, base) ==
    LET range_part == second_part(zone_prefix, "-")
        m == prefix_num_match(postcode_clean, base)
    IN  /\ m # ""
        /\ IF Contains(range_part, "-")
           THEN LET range_start == int(before(range_part, "-"))
                    range_end == int(after(range_part, "-"))
                IN  /\ range_start # ValueError
                    /\ range_end # ValueError
                    /\ range_start <= int(m) /\ int(m) <= range_end
           ELSE /\ int(range_part) # ValueError
                /\ int(m) = int(range_part)

\* a row 'XX<low>+'
plus_row_matches(zone_prefix, postcode_clean, base) ==
    LET min_num == int(remove(before(zone_prefix, "+"), base))
        m == prefix_num_match(postcode_clean, base)
    IN  /\ min_num # ValueError
        /\ m # ""
        /\ int(m) >= min_num

\* one turn of the loop over zones_data: does this row return?
row_matches(row, postcode_clean, prefix) ==
    LET zone_prefix == upper(strip(row.Postcode_Prefix))
    IN  IF Contains(zone_prefix, "-") \/ Contains(zone_prefix, "+")
        THEN LET base_part == IF Contains(zone_prefix, " ")
                              THEN first_word(zone_prefix) ELSE zone_prefix
                 base == leading(base_part, UpperSet, Len(base_part))
             IN  /\ base # ""
                 /\ startswith(prefix, base)
                 /\ IF Contains(zone_prefix, "-")
                    THEN range_row_matches(zone_prefix, postcode_clean, base)
                    ELSE plus_row_matches(zone_prefix, postcode_clean, base)
        ELSE \/ prefix = zone_prefix
             \/ /\ Contains(zone_prefix, " ") /\ Contains(zone_prefix, "(")
                /\ prefix = first_word(zone_prefix)

RECURSIVE first_matching_row(_, _, _)
first_matching_row(rows, postcode_clean, prefix) ==
    IF rows = <<>> THEN None
    ELSE IF row_matches(Head(rows), postcode_clean, prefix)
    THEN [kind |-> "zone", Zone |-> Head(rows).Zone,
          Service_Level |-> Head(rows).Service_Level]
    ELSE first_matching_row(Tail(rows), postcode_clean, prefix)

find_zone_in(rows, postcode) ==
    LET postcode_clean == remove(upper(postcode), " ")
        prefix == leading(postcode_clean, UpperSet, 2)
    IN  IF postcode = "" \/ prefix = "" THEN None
        ELSE first_matching_row(rows, postcode_clean, prefix)

_find_zone_by_postcode(postcode) == find_zone_in(zones_data, postcode)

(***************************************************************************)
(* Numbers.                                                                *)
(***************************************************************************)
\* units to the pound: 10.304 GBP is 1030400
MoneyScale == 100000

\* units to the penny
PennyScale == 1000

\* grams to the kilogram
WeightScale == 1000

\* litres to the cubic metre
VolumeScale == 1000

\* cubic centimetres to the litre
CubicCmPerLitre == 1000

\* the "1m3 = 333kg" conversion factor
KgPerM3 == 333

RECURSIVE pad_right(_, _)
pad_right(digits, n) ==
    IF n = 0 THEN ""
    ELSE IF digits = "" THEN "0" \o pad_right("", n - 1)
    ELSE Head(digits) \o pad_right(Tail(digits), n - 1)

RECURSIVE decimals_of(_)
decimals_of(scale) == IF scale = 1 THEN 0 ELSE 1 + decimals_of(scale \div 10)

\* the number <whole>.<fraction> in units of 1/scale
scaled(whole, fraction, scale) ==
    digits_value(whole, 0) * scale
        + digits_value(pad_right(fraction, decimals_of(scale)), 0)

\* float(s) of a cell of a table: blanks, digits, at most one point.  ValueError otherwise.
float(s, scale) ==
    LET t == strip(s)
        whole == leading(t, DigitSet, Len(t))
        rest == SubSeq(t, Len(whole) + 1, Len(t))
        fraction == IF rest = "" THEN "" ELSE Tail(rest)
    IN  IF t = "" THEN ValueError
        ELSE IF rest = "" THEN scaled(whole, "", scale)
        ELSE IF Head(rest) = "." /\ leading(fraction, DigitSet, Len(fraction)) = fraction
                /\ whole \o fraction # ""
        THEN scaled(whole, fraction, scale)
        ELSE ValueError

\* re.search(r'(\d+\.?\d*)', s) then float(group(1)): the first run of digits with the
\* point and digits that may follow it.  ValueError stands for "no match".
RECURSIVE search_number(_, _)
search_number(s, scale) ==
    IF s = "" THEN ValueError
    ELSE IF IsDigit(Head(s))
    THEN LET whole == leading(s, DigitSet, Len(s))
             rest == SubSeq(s, Len(whole) + 1, Len(s))
         IN  IF rest # "" /\ Head(rest) = "."
             THEN scaled(whole, leading(Tail(rest), DigitSet, Len(rest)), scale)
             ELSE scaled(whole, "", scale)
    ELSE search_number(Tail(s), scale)

\* round(x, 2): to the nearest multiple of `unit` (a hundredth), a tie to the even one
round_to(x, unit) ==
    LET q == x \div unit
        r == x % unit
    IN  IF 2 * r < unit THEN q * unit
        ELSE IF 2 * r > unit THEN (q + 1) * unit
        ELSE IF q % 2 = 0 THEN q * unit ELSE (q + 1) * unit

\* round(x, 2) of an amount of money
Round2(x) == round_to(x, PennyScale)

Max2(a, b) == IF a >= b THEN a ELSE b

(***************************************************************************)
(* _parse_weight, _calculate_volume_weight, _calculate_billable_weight     *)
(***************************************************************************)
\* total_weight texts of the model hold no "total ... weight ... <n> kg", so the
\* first pattern of the code never matches them and the first number is taken
_parse_weight(weight_str) ==
    LET found == search_number(lower(weight_str), WeightScale)
    IN  IF weight_str = "" \/ found = ValueError THEN 0 ELSE found

\* one dimension text: the volume in litres of its first three whole numbers (cm; the
\* dimensions of the model are whole decimetres, so the division is exact), 0 when it
\* holds fewer than three
RECURSIVE findall_numbers(_)
findall_numbers(s) ==
    IF first_digits(s) = "" THEN <<>>
    ELSE LET d == first_digits(s)
             RECURSIVE skip(_)
             skip(t) == IF IsDigit(Head(t)) THEN t ELSE skip(Tail(t))
             start == skip(s)
         IN  <<int(d)>> \o findall_numbers(SubSeq(start, Len(d) + 1, Len(start)))

item_volume(dim) ==
    LET matches == findall_numbers(dim)
    IN  IF Len(matches) >= 3
        THEN (matches[1] * matches[2] * matches[3]) \div CubicCmPerLitre ELSE 0

RECURSIVE sum_volumes(_)
sum_volumes(dimensions) ==
    IF dimensions = <<>> THEN 0
    ELSE item_volume(Head(dimensions)) + sum_volumes(Tail(dimensions))

\* 1.2 * 0.8 * 1.2 m3
standard_pallet_volume == 1152

MutVolumeAlwaysTimesQuantity(dimensions, quantity, volume_m3) ==
    LET given == IF volume_m3.kind = "float" /\ volume_m3.val > 0 THEN volume_m3.val ELSE 0
    IN  IF given > 0 THEN given
        ELSE IF dimensions # <<>> THEN sum_volumes(dimensions) * quantity
        ELSE standard_pallet_volume * quantity

MutPalletIgnoresQuantity(dimensions, quantity, volume_m3) ==
    LET given == IF volume_m3.kind = "float" /\ volume_m3.val > 0 THEN volume_m3.val ELSE 0
        summed == sum_volumes(dimensions)
    IN  IF given > 0 THEN given
        ELSE IF dimensions # <<>>
        THEN IF summed > 0 /\ Len(dimensions) = 1 /\ quantity > 1
             THEN summed * quantity ELSE summed
        ELSE standard_pallet_volume

\* the total volume, in litres.  volume_m3 is None, a text or a number; a text is parsed
\* and then not used: only a number > 0 sets total_volume_m3
total_volume(dimensions, quantity, volume_m3) ==
    LET given == IF volume_m3.kind = "float" /\ volume_m3.val > 0 THEN volume_m3.val ELSE 0
        summed == sum_volumes(dimensions)
    IN  IF given > 0 THEN given
        ELSE IF dimensions # <<>>
        THEN IF summed > 0 /\ Len(dimensions) = 1 /\ quantity > 1
             THEN summed * quantity ELSE summed
        ELSE standard_pallet_volume * quantity

\* grams: litres * 333 kg/m3
_calculate_volume_weight(dimensions, quantity, volume_m3) ==
    total_volume(dimensions, quantity, volume_m3) * KgPerM3 * (WeightScale \div VolumeScale)

MutBillableIsVolumeWeight(weight_kg, quantity, dimensions, volume_m3) ==
    _calculate_volume_weight(dimensions, quantity, volume_m3)

_calculate_billable_weight(weight_kg, quantity, dimensions, volume_m3) ==
    Max2(weight_kg, _calculate_volume_weight(dimensions, quantity, volume_m3))

(***************************************************************************)
(* _find_base_price                                                        *)
(***************************************************************************)
Num(v) == [kind |-> "float", val |-> v]

Str(s) == [kind |-> "str", s |-> s]

\* the Weight_KG of every row that float() accepts, in table order
RECURSIVE collect_weight_tiers(_)
collect_weight_tiers(rows) ==
    IF rows = <<>> THEN <<>>
    ELSE LET w == float(Head(rows).Weight_KG, WeightScale)
         IN  (IF w = ValueError THEN <<>> ELSE <<w>>) \o collect_weight_tiers(Tail(rows))

RECURSIVE max_of(_)
max_of(tiers) ==
    IF Len(tiers) = 1 THEN tiers[1] ELSE Max2(tiers[1], max_of(Tail(tiers)))

\* the loop over the tiers: the first one >= weight, None when there is none
RECURSIVE first_tier_at_least(_, _)
first_tier_at_least(tiers, weight) ==
    IF tiers = <<>> THEN None
    ELSE IF Head(tiers) >= weight THEN Num(Head(tiers))
    ELSE first_tier_at_least(Tail(tiers), weight)

MutTierStrictlyAbove(weight_tiers, weight) ==
    LET sorted == SortSeq(weight_tiers, LAMBDA a, b : a < b)
        tier == first_tier_at_least(sorted, weight + 1)
    IN  IF tier = None THEN max_of(weight_tiers) ELSE tier.val

MutTierFallsBackToFirst(weight_tiers, weight) ==
    LET sorted == SortSeq(weight_tiers, LAMBDA a, b : a < b)
        tier == first_tier_at_least(sorted, weight)
    IN  IF tier = None THEN sorted[1] ELSE tier.val

\* the tier chosen among weight_tiers (not empty) for a weight
select_tier(weight_tiers, weight) ==
    LET sorted == SortSeq(weight_tiers, LAMBDA a, b : a < b)
        tier == first_tier_at_least(sorted, weight)
    IN  IF tier = None THEN max_of(weight_tiers) ELSE tier.val

MutPoaNotRecognised(row) ==
    LET p == float(row.Price_GBP, MoneyScale)
    IN  IF p = ValueError THEN None ELSE Num(p)

\* what the row of the tier, zone and service returns; ValueError: the loop goes on
row_price(row) ==
    IF row.Price_GBP = "P.O.A" THEN Str("P.O.A")
    ELSE LET p == float(row.Price_GBP, MoneyScale)
         IN  IF p = ValueError THEN None ELSE Num(p)

\* the loop over pricing_data for the row of (tier, zone, service)
RECURSIVE price_of_tier(_, _, _, _)
price_of_tier(rows, tier, zone, service) ==
    IF rows = <<>> THEN Num(0)
    ELSE LET row == Head(rows)
             hit == /\ float(row.Weight_KG, WeightScale) = tier
                    /\ row.Zone = zone
                    /\ row.Service = service
         IN  IF hit /\ row_price(row) # None THEN row_price(row)
             ELSE price_of_tier(Tail(rows), tier, zone, service)

MutNoRowIsAnError(rows, weight, zone, service) ==
    LET weight_tiers == collect_weight_tiers(rows)
        found == price_of_tier(rows, select_tier(weight_tiers, weight), zone, service)
    IN  IF rows = <<>> \/ weight_tiers = <<>> THEN Str("P.O.A")
        ELSE IF found = Num(0) THEN Str("P.O.A") ELSE found

base_price_in(rows, weight, zone, service) ==
    LET weight_tiers == collect_weight_tiers(rows)
    IN  IF rows = <<>> \/ weight_tiers = <<>> THEN Num(0)
        ELSE price_of_tier(rows, select_tier(weight_tiers, weight), zone, service)

_find_base_price(weight, zone, service) ==
    base_price_in(pricing_data, weight, zone, service)

(***************************************************************************)
(* _get_surcharge_amount, _calculate_surcharges                            *)
(***************************************************************************)
RECURSIVE surcharge_amount_in(_, _)
surcharge_amount_in(rows, surcharge_type) ==
    IF rows = <<>> THEN 0
    ELSE IF Contains(lower(Head(rows).Surcharge_Type), lower(surcharge_type))
    THEN LET a == float(Head(rows).Amount_GBP, MoneyScale)
         IN  IF a = ValueError THEN 0 ELSE a
    ELSE surcharge_amount_in(Tail(rows), surcharge_type)

_get_surcharge_amount(surcharge_type) ==
    surcharge_amount_in(surcharges_data, surcharge_type)

Line(label, amount) == [label |-> label, amount |-> amount]

\* 8% of the base price
fuel_of(base_price) == (base_price * 8) \div 100

MutMoffettAtAnyQuantity(info, base_price, zone, quantity) ==
    LET airway_bill_charge == _get_surcharge_amount("Airway Bill Printing")
        total_cargo_labels_charge ==
            _get_surcharge_amount("Cargo Identification Labels") * quantity
        fuel_surcharge == fuel_of(base_price)
        item(label, amount, adds) == <<[label |-> label, amount |-> amount, adds |-> adds]>>
        flat(label, name) ==
            item(label, _get_surcharge_amount(name), _get_surcharge_amount(name))
    IN  flat("Airway Bill Printing", "Airway Bill Printing")
        \o item("Cargo Identification Labels (" \o ToString(quantity) \o " items)",
                total_cargo_labels_charge, total_cargo_labels_charge)
        \o (IF info.tail_lift_needed THEN flat("Tail Lift", "Tail-lift") ELSE <<>>)
        \o (IF info.moffett_delivery
            THEN flat("Moffett Delivery", "Moffat") ELSE <<>>)
        \o (IF info.delivery_time \in {"AM", "PM"}
            THEN flat(info.delivery_time \o " Delivery", "AM or PM") ELSE <<>>)
        \o (IF info.adr_surcharge THEN flat("ADR Surcharge", "ADR") ELSE <<>>)
        \o (IF zone \in {"5", "6"} THEN flat("London Surcharge", "London") ELSE <<>>)
        \o item("Fuel Surcharge", Round2(fuel_surcharge), fuel_surcharge)

MutLondonInZone5Only(info, base_price, zone, quantity) ==
    LET airway_bill_charge == _get_surcharge_amount("Airway Bill Printing")
        total_cargo_labels_charge ==
            _get_surcharge_amount("Cargo Identification Labels") * quantity
        fuel_surcharge == fuel_of(base_price)
        item(label, amount, adds) == <<[label |-> label, amount |-> amount, adds |-> adds]>>
        flat(label, name) ==
            item(label, _get_surcharge_amount(name), _get_surcharge_amount(name))
    IN  flat("Airway Bill Printing", "Airway Bill Printing")
        \o item("Cargo Identification Labels (" \o ToString(quantity) \o " items)",
                total_cargo_labels_charge, total_cargo_labels_charge)
        \o (IF info.tail_lift_needed THEN flat("Tail Lift", "Tail-lift") ELSE <<>>)
        \o (IF info.moffett_delivery /\ quantity >= 8
            THEN flat("Moffett Delivery", "Moffat") ELSE <<>>)
        \o (IF info.delivery_time \in {"AM", "PM"}
            THEN flat(info.delivery_time \o " Delivery", "AM or PM") ELSE <<>>)
        \o (IF info.adr_surcharge THEN flat("ADR Surcharge", "ADR") ELSE <<>>)
        \o (IF zone \in {"5"} THEN flat("London Surcharge", "London") ELSE <<>>)
        \o item("Fuel Surcharge", Round2(fuel_surcharge), fuel_surcharge)

\* the lines in the order the code adds them; the amount of each is what is stored in
\* 'breakdown', `adds` what is added to 'total'
MutLabelsOnlyWhenRequired(info, base_price, zone, quantity) ==
    LET airway_bill_charge == _get_surcharge_amount("Airway Bill Printing")
        total_cargo_labels_charge ==
            _get_surcharge_amount("Cargo Identification Labels") * quantity
        fuel_surcharge == fuel_of(base_price)
        item(label, amount, adds) == <<[label |-> label, amount |-> amount, adds |-> adds]>>
        flat(label, name) ==
            item(label, _get_surcharge_amount(name), _get_surcharge_amount(name))
    IN  flat("Airway Bill Printing", "Airway Bill Printing")
        \o (IF "labeling_required" \in DOMAIN info /\ info.labeling_required
            THEN item("Cargo Identification Labels (" \o ToString(quantity) \o " items)",
                      total_cargo_labels_charge, total_cargo_labels_charge)
            ELSE <<>>)
        \o (IF info.tail_lift_needed THEN flat("Tail Lift", "Tail-lift") ELSE <<>>)
        \o (IF info.moffett_delivery /\ quantity >= 8
            THEN flat("Moffett Delivery", "Moffat") ELSE <<>>)
        \o (IF info.delivery_time \in {"AM", "PM"}
            THEN flat(info.delivery_time \o " Delivery", "AM or PM") ELSE <<>>)
        \o (IF info.adr_surcharge THEN flat("ADR Surcharge", "ADR") ELSE <<>>)
        \o (IF zone \in {"5", "6"} THEN flat("London Surcharge", "London") ELSE <<>>)
        \o item("Fuel Surcharge", Round2(fuel_surcharge), fuel_surcharge)

surcharge_lines(info, base_price, zone, quantity) ==
    LET airway_bill_charge == _get_surcharge_amount("Airway Bill Printing")
        total_cargo_labels_charge ==
            _get_surcharge_amount("Cargo Identification Labels") * quantity
        fuel_surcharge == fuel_of(base_price)
        item(label, amount, adds) == <<[label |-> label, amount |-> amount, adds |-> adds]>>
        flat(label, name) ==
            item(label, _get_surcharge_amount(name), _get_surcharge_amount(name))
    IN  flat("Airway Bill Printing", "Airway Bill Printing")
        \o item("Cargo Identification Labels (" \o ToString(quantity) \o " items)",
                total_cargo_labels_charge, total_cargo_labels_charge)
        \o (IF info.tail_lift_needed THEN flat("Tail Lift", "Tail-lift") ELSE <<>>)
        \o (IF info.moffett_delivery /\ quantity >= 8
            THEN flat("Moffett Delivery", "Moffat") ELSE <<>>)
        \o (IF info.delivery_time \in {"AM", "PM"}
            THEN flat(info.delivery_time \o " Delivery", "AM or PM") ELSE <<>>)
        \o (IF info.adr_surcharge THEN flat("ADR Surcharge", "ADR") ELSE <<>>)
        \o (IF zone \in {"5", "6"} THEN flat("London Surcharge", "London") ELSE <<>>)
        \o item("Fuel Surcharge", Round2(fuel_surcharge), fuel_surcharge)

RECURSIVE sum_field(_, _)
sum_field(lines, field) ==
    IF lines = <<>> THEN 0 ELSE Head(lines)[field] + sum_field(Tail(lines), field)

RECURSIVE breakdown_of(_)
breakdown_of(lines) ==
    IF lines = <<>> THEN <<>>
    ELSE <<Line(Head(lines).label, Head(lines).amount)>> \o breakdown_of(Tail(lines))

_calculate_surcharges(info, base_price, zone, quantity) ==
    the({[total |-> sum_field(lines, "adds"), breakdown |-> breakdown_of(lines)] :
         lines \in {surcharge_lines(info, base_price, zone, quantity)}})

(***************************************************************************)
(* _extract_postcode                                                       *)
(***************************************************************************)
IsLetterOrDigit(c) == IsLetter(c) \/ IsDigit(c)

\* [A-Z]{1,2}\d[A-Z\d]?\s*\d[A-Z]{2} with IGNORECASE, tried at position i with
\* `letters` leading letters and `extra` characters for [A-Z\d]?: the position after
\* the match, 0 when it fails
postcode_match_end(s, i, letters, extra) ==
    LET d == i + letters
        sp == d + 1 + extra
        blanks == Len(leading(SubSeq(s, sp, Len(s)), {" "}, Len(s)))
        e == sp + blanks
    IN  IF /\ e + 2 <= Len(s)
           /\ \A k \in i..(d - 1) : IsLetter(Ch(s, k))
           /\ IsDigit(Ch(s, d))
           /\ (extra = 1 => IsLetterOrDigit(Ch(s, d + 1)))
           /\ IsDigit(Ch(s, e))
           /\ IsLetter(Ch(s, e + 1)) /\ IsLetter(Ch(s, e + 2))
        THEN e + 3 ELSE 0

\* the alternatives in the order the regular expression engine tries them
postcode_match_at(s, i) ==
    LET tries == <<postcode_match_end(s, i, 2, 1), postcode_match_end(s, i, 2, 0),
                   postcode_match_end(s, i, 1, 1), postcode_match_end(s, i, 1, 0)>>
    IN  IF \A k \in 1..4 : tries[k] = 0 THEN 0
        ELSE tries[CHOOSE k \in 1..4 : tries[k] # 0 /\ \A j \in 1..(k - 1) : tries[j] = 0]

\* re.findall(pattern, address)[0]: the leftmost match, "" when there is none
first_postcode(address) ==
    LET starts == {i \in 1..Len(address) : postcode_match_at(address, i) # 0}
    IN  IF starts = {} THEN ""
        ELSE LET i == CHOOSE a \in starts : \A b \in starts : a <= b
             IN  SubSeq(address, i, postcode_match_at(address, i) - 1)

\* ^[A-Z]{1,2}\d{1,2}[A-Z]?$
is_bare_prefix(address_upper) ==
    LET letters == leading(address_upper, UpperSet, 2)
        rest == SubSeq(address_upper, Len(letters) + 1, Len(address_upper))
        digits == leading(rest, DigitSet, 2)
        tail == SubSeq(rest, Len(digits) + 1, Len(rest))
    IN  /\ letters # "" /\ digits # ""
        /\ (tail = "" \/ (Len(tail) = 1 /\ IsUpper(tail)))

sample_postcodes ==
    <<<<"CO7", "CO7 7AB">>, <<"CO", "CO1 1AB">>, <<"B", "B1 1AB">>,
      <<"BHX", "B26 3QJ">>, <<"BH", "BH1 1AB">>, <<"AB", "AB1 1AB">>>>

airport_mappings ==
    <<<<"BHX", "B26 3QJ">>, <<"LHR", "TW6 1EW">>, <<"LGW", "RH6 0NP">>,
      <<"MAN", "M90 1QX">>, <<"STN", "CM24 1RW">>, <<"EDI", "EH12 9DN">>,
      <<"GLA", "PA3 2SW">>, <<"CO7", "CO7 7AB">>>>

location_mappings ==
    <<<<"BIRMINGHAM AIRPORT", "B26 3QJ">>, <<"HEATHROW AIRPORT", "TW6 1EW">>,
      <<"GATWICK AIRPORT", "RH6 0NP">>, <<"MANCHESTER AIRPORT", "M90 1QX">>,
      <<"STANSTED AIRPORT", "CM24 1RW">>, <<"EDINBURGH AIRPORT", "EH12 9DN">>,
      <<"GLASGOW AIRPORT", "PA3 2SW">>, <<"COLCHESTER", "CO1 1AB">>>>

\* the value of the first entry whose key the address starts with, "" when none
RECURSIVE first_started(_, _)
first_started(address_upper, mapping) ==
    IF mapping = <<>> THEN ""
    ELSE IF startswith(address_upper, Head(mapping)[1]) THEN Head(mapping)[2]
    ELSE first_started(address_upper, Tail(mapping))

\* the value of the first entry whose key is in the address, "" when none
RECURSIVE first_contained(_, _)
first_contained(address_upper, mapping) ==
    IF mapping = <<>> THEN ""
    ELSE IF Contains(address_upper, Head(mapping)[1]) THEN Head(mapping)[2]
    ELSE first_contained(address_upper, Tail(mapping))

\* the loop over zones_data of the bare-prefix step: does some row make it return?
prefix_known(rows, address_upper) ==
    \E k \in 1..Len(rows) :
        LET zone_prefix == upper(strip(rows[k].Postcode_Prefix))
        IN  \/ startswith(address_upper, first_word(zone_prefix))
            \/ startswith(zone_prefix, address_upper)

\* "" stands for None
extract_postcode_in(rows, address) ==
    LET address_upper == strip(upper(address))
        sample == first_started(address_upper, sample_postcodes)
        airport == first_contained(address_upper, airport_mappings)
        location == first_contained(address_upper, location_mappings)
    IN  IF address = "" THEN ""
        ELSE IF first_postcode(address) # "" THEN first_postcode(address)
        ELSE IF is_bare_prefix(address_upper) /\ prefix_known(rows, address_upper)
        THEN IF sample # "" THEN sample ELSE address_upper \o " 1AB"
        ELSE IF airport # "" THEN airport
        ELSE location

_extract_postcode(address) == extract_postcode_in(zones_data, address)

(***************************************************************************)
(* _calculate_pricing                                                      *)
(***************************************************************************)
\* SERVICE_MAPPING.get(service_type, 'E')
SERVICE_MAPPING(service_type) ==
    CASE service_type = "E" -> "Economy"
      [] service_type = "ND" -> "Next Day"
      [] service_type = "Next Day" -> "ND"
      [] service_type = "Economy" -> "E"
      [] OTHER -> "E"

Error(text) == [kind |-> "error", error |-> text]

\* the volume handed on: None, or the number of the text or number given
\* (`if volume_m3:` sends "", 0 and None to None)
volume_given(volume_m3) ==
    IF volume_m3.kind = "str"
    THEN IF volume_m3.s = "" \/ search_number(volume_m3.s, VolumeScale) = ValueError
         THEN None ELSE Num(search_number(volume_m3.s, VolumeScale))
    ELSE IF volume_m3.kind = "float" /\ volume_m3.val # 0 THEN volume_m3
    ELSE None

\* the hard-coded rate of the 'Cargo identification labels' line: 0.30
LabelRate == 30000

labels_key(quantity) == "Cargo identification labels (" \o ToString(quantity) \o " @ 0.30)"

\* the five amounts of quote_breakdown that are not its Total
breakdown_amounts(quantity) ==
    <<"Collection & Delivery", "Fuel Surcharge (8% of freight)", "Airway bill printing",
      labels_key(quantity), "Other surcharges">>

\* the success result, from the surcharges on
priced(info, quantity, volume_m3, zone, service_code, weight_kg, billable_weight, base_price) ==
    the({LET total_price == base_price + surcharges.total
             other_surcharges_total == surcharges.total - (fuel + airway + labels)
             quote_breakdown ==
                 ("Actual weight" :> [kg |-> weight_kg])
                 @@ ("Billed for" :> [kg |-> round_to(billable_weight, WeightScale \div 100),
                                      zone |-> zone, service |-> service_code])
                 @@ ("Collection & Delivery" :> Round2(base_price))
                 @@ ("Fuel Surcharge (8% of freight)" :> fuel)
                 @@ ("Airway bill printing" :> airway)
                 @@ (labels_key(quantity) :> labels)
                 @@ ("Other surcharges" :> Round2(other_surcharges_total))
                 @@ ("Total" :> Round2(total_price))
             other_details ==
                 [quantity |-> quantity,
                  weight_kg |-> round_to(billable_weight, WeightScale \div 100),
                  service_type |-> service_code,
                  zone |-> zone,
                  from_address |-> info.from_address,
                  to_address |-> info.to_address,
                  delivery_date |-> info.delivery_date,
                  volume_m3 |-> volume_m3,
                  surcharge_details |-> surcharges.breakdown]
         IN  [kind |-> "success", quote_breakdown |-> quote_breakdown,
              other_details |-> other_details] :
         surcharges \in {_calculate_surcharges(info, base_price, zone, quantity)},
         fuel \in {Round2(fuel_of(base_price))},
         airway \in {_get_surcharge_amount("Airway Bill Printing")},
         labels \in {Round2(quantity * LabelRate)}})

MutServiceKeepsRequested(service_type, service_level) == SERVICE_MAPPING(service_type)

\* lines 87-91: the code asked for, 'ND' in its place when the zone does not offer it
service_code_for(service_type, service_level) ==
    IF Contains(service_level, SERVICE_MAPPING(service_type))
    THEN SERVICE_MAPPING(service_type) ELSE "ND"

\* lines 93-147, with the zone found
price_in_zone(info, postcode, zone_info) ==
    the({the({the({
        LET locals == [postcode |-> postcode, zone |-> zone_info.Zone,
                       service_level |-> zone_info.Service_Level,
                       service_code |-> service_code, weight_kg |-> weight_kg,
                       quantity |-> info.quantity.val,
                       billable_weight |-> billable_weight, base_price |-> base_price]
        IN  IF base_price = Str("P.O.A")
            THEN Error("Price on application - please contact us") @@ [locals |-> locals]
            ELSE priced(info, info.quantity.val, volume_m3, zone_info.Zone, service_code,
                        weight_kg, billable_weight, base_price.val) @@ [locals |-> locals] :
        base_price \in {_find_base_price(billable_weight, zone_info.Zone, service_code)}}) :
        billable_weight \in {_calculate_billable_weight(weight_kg, info.quantity.val,
                                                         info.dimensions, volume_m3)}}) :
        volume_m3 \in {volume_given(info.volume_m3)},
        service_code \in {service_code_for(info.service_type, zone_info.Service_Level)},
        weight_kg \in {_parse_weight(info.total_weight)}})

\* lines 76-83, then the rest
price_from(info, postcode) ==
    IF postcode = ""
    THEN Error("Could not extract postcode from pickup address: " \o info.from_address)
    ELSE the({IF zone_info = None
              THEN Error("Service not available for postcode: " \o postcode)
              ELSE price_in_zone(info, postcode, zone_info) :
              zone_info \in {_find_zone_by_postcode(postcode)}})

MutQuantityCheckedFirst(info) ==
    IF ~truthy(info.quantity) THEN "Missing or invalid quantity"
    ELSE IF info.from_address = "" THEN "Missing pickup address"
    ELSE ""

\* lines 46-50: the reason the record is turned down for, "" when it is not
validation_error(info) ==
    IF info.from_address = "" THEN "Missing pickup address"
    ELSE IF ~truthy(info.quantity) THEN "Missing or invalid quantity"
    ELSE ""

_calculate_pricing(info) ==
    IF validation_error(info) # "" THEN Error(validation_error(info))
    ELSE the({price_from(info, postcode) :
              postcode \in {_extract_postcode(info.from_address)}})

(***************************************************************************)
(* ai_extractor.py: the record handed to _calculate_pricing.               *)
(*                                                                         *)
(* A dict is a record; a key the dict does not hold is not in its DOMAIN.  *)
(* The texts of the model are ASCII and their only blank is the space.     *)
(***************************************************************************)
\* data.get(field, default)
get(data, field, default) == IF field \in DOMAIN data THEN data[field] ELSE default

\* an exception on its way out of a call
Raised(exception, message) ==
    [kind |-> "raised", exception |-> exception, message |-> message]

\* str(n) of a whole number that is not negative
RECURSIVE digits_text(_)
digits_text(n) ==
    IF n < 10 THEN Ch(DigitChars, n + 1)
    ELSE digits_text(n \div 10) \o Ch(DigitChars, (n % 10) + 1)

\* the digits of r/scale after the point, all of them
RECURSIVE fraction_text(_, _)
fraction_text(r, scale) ==
    IF scale = 1 THEN ""
    ELSE Ch(DigitChars, (r \div (scale \div 10)) + 1)
             \o fraction_text(r % (scale \div 10), scale \div 10)

RECURSIVE rstrip_zeros(_)
rstrip_zeros(s) ==
    IF s # "" /\ Ch(s, Len(s)) = "0" THEN rstrip_zeros(SubSeq(s, 1, Len(s) - 1)) ELSE s

\* f"{x}" of a float that is not negative: the shortest decimal, '.0' for a whole number
format_float(x, scale) ==
    LET fraction == rstrip_zeros(fraction_text(x % scale, scale))
    IN  digits_text(x \div scale) \o "." \o (IF fraction = "" THEN "0" ELSE fraction)

\* re.search(r'(\d+)', str(text)): of a whole number its digits without the sign
_extract_number(text) ==
    IF text.kind = "int" THEN (IF text.val < 0 THEN 0 - text.val ELSE text.val)
    ELSE IF first_digits(text.s) = "" THEN 0
    ELSE digits_value(first_digits(text.s), 0)

\* one pound in millionths of a kilogram
LbInKg == 453592

Million == 1000000

\* weight * 0.453592 in millionths of a kilogram, the whole pounds and the rest apart
pounds_in_kg(weight) ==
    (weight \div WeightScale) * LbInKg + ((weight % WeightScale) * LbInKg) \div WeightScale

_standardize_weight(weight_text) ==
    LET text == lower(weight_text)
        weight == search_number(text, WeightScale)
    IN  IF weight = ValueError THEN "0 kg"
        ELSE IF Contains(text, "ton") THEN format_float(weight * 1000, WeightScale) \o " kg"
        ELSE IF Contains(text, "lb") \/ Contains(text, "pound")
        THEN format_float(pounds_in_kg(weight), Million) \o " kg"
        ELSE format_float(weight, WeightScale) \o " kg"

extractor_airport_mappings ==
    <<<<"bhx", "Birmingham Airport (BHX), B26 3QJ">>,
      <<"lhr", "Heathrow Airport (LHR), TW6 1EW">>,
      <<"lgw", "Gatwick Airport (LGW), RH6 0NP">>,
      <<"man", "Manchester Airport (MAN), M90 1QX">>,
      <<"stn", "Stansted Airport (STN), CM24 1RW">>,
      <<"edi", "Edinburgh Airport (EDI), EH12 9DN">>,
      <<"gla", "Glasgow Airport (GLA), PA3 2SW">>>>

\* the address itself when it is not blank (the postcode found in it is only printed),
\* else the airport named in the special requirements
_enhance_address_extraction(address, special_requirements) ==
    IF address # "" /\ strip(address) # "" THEN address
    ELSE first_contained(lower(special_requirements), extractor_airport_mappings)

required_fields == {"freight_type", "quantity", "total_weight", "from_address", "to_address"}

\* lines 92-93
clean_quantity(data) ==
    LET quantity == get(data, "quantity", Str(""))
    IN  IF truthy(quantity) THEN [kind |-> "int", val |-> _extract_number(quantity)]
        ELSE quantity

\* lines 96-97
clean_total_weight(data) ==
    LET total_weight == get(data, "total_weight", "")
    IN  IF total_weight # "" THEN _standardize_weight(total_weight) ELSE total_weight

\* lines 100-111: str(volume) of a float reads back as the float
clean_volume_m3(data) ==
    LET volume_m3 == get(data, "volume_m3", None)
    IN  IF ~truthy(volume_m3) THEN None
        ELSE IF volume_m3.kind = "float" THEN volume_m3
        ELSE IF search_number(volume_m3.s, VolumeScale) = ValueError THEN None
        ELSE Num(search_number(volume_m3.s, VolumeScale))

\* lines 114-118: one dimension text is repeated for every item
clean_dimensions(data) ==
    LET dimensions == data.dimensions
        quantity == clean_quantity(data)
    IN  IF dimensions # <<>> /\ quantity.val > 1 /\ Len(dimensions) = 1
        THEN [k \in 1..quantity.val |-> dimensions[1]]
        ELSE dimensions

\* line 114: a quantity that is '' or None cannot be compared with 1
cleaning_raises(data) ==
    /\ get(data, "dimensions", <<>>) # <<>>
    /\ clean_quantity(data).kind # "int"

_validate_and_clean_data(data) ==
    IF cleaning_raises(data)
    THEN Raised("TypeError", "'>' not supported between instances of '"
                              \o (IF clean_quantity(data) = None THEN "NoneType" ELSE "str")
                              \o "' and 'int'")
    ELSE [field \in DOMAIN data \cup required_fields \cup {"volume_m3"} |->
             CASE field = "quantity" -> clean_quantity(data)
               [] field = "total_weight" -> clean_total_weight(data)
               [] field = "volume_m3" -> clean_volume_m3(data)
               [] field = "dimensions" -> clean_dimensions(data)
               [] field \in {"to_address", "from_address"} ->
                     _enhance_address_extraction(get(data, field, ""),
                                                 get(data, "special_requirements", ""))
               [] OTHER -> get(data, field, "")]

IsWordChar(c) == IsLetterOrDigit(c) \/ c = "_"

\* \b between s[i - 1] and s[i]
word_boundary(s, i) ==
    (i > 1 /\ IsWordChar(Ch(s, i - 1))) # (i <= Len(s) /\ IsWordChar(Ch(s, i)))

\* \b[A-Z]{1,2}[0-9][A-Z0-9]? ?[0-9][A-Z]{2}\b tried at position i with `letters`
\* leading letters, `extra` characters for [A-Z0-9]? and `blank` for ' ?': the position
\* after the match, 0 when it fails
fallback_postcode_end(s, i, letters, extra, blank) ==
    LET d == i + letters
        e == d + 1 + extra + blank
    IN  IF /\ e + 2 <= Len(s)
           /\ word_boundary(s, i)
           /\ \A k \in i..(d - 1) : IsUpper(Ch(s, k))
           /\ IsDigit(Ch(s, d))
           /\ (extra = 1 => IsUpper(Ch(s, d + 1)) \/ IsDigit(Ch(s, d + 1)))
           /\ (blank = 1 => Ch(s, d + 1 + extra) = " ")
           /\ IsDigit(Ch(s, e))
           /\ IsUpper(Ch(s, e + 1)) /\ IsUpper(Ch(s, e + 2))
           /\ word_boundary(s, e + 3)
        THEN e + 3 ELSE 0

\* the alternatives in the order the regular expression engine tries them
fallback_postcode_at(s, i) ==
    LET tries == <<fallback_postcode_end(s, i, 2, 1, 1), fallback_postcode_end(s, i, 2, 1, 0),
                   fallback_postcode_end(s, i, 2, 0, 1), fallback_postcode_end(s, i, 2, 0, 0),
                   fallback_postcode_end(s, i, 1, 1, 1), fallback_postcode_end(s, i, 1, 1, 0),
                   fallback_postcode_end(s, i, 1, 0, 1), fallback_postcode_end(s, i, 1, 0, 0)>>
    IN  IF \A k \in 1..8 : tries[k] = 0 THEN 0
        ELSE tries[CHOOSE k \in 1..8 : tries[k] # 0 /\ \A j \in 1..(k - 1) : tries[j] = 0]

\* re.search of the pattern: the leftmost match, "" when there is none
fallback_postcode(body_upper) ==
    LET starts == {i \in 1..Len(body_upper) : fallback_postcode_at(body_upper, i) # 0}
    IN  IF starts = {} THEN ""
        ELSE LET i == CHOOSE a \in starts : \A b \in starts : a <= b
             IN  SubSeq(body_upper, i, fallback_postcode_at(body_upper, i) - 1)

\* re.search(r'(\d+)\s*<unit>', s).group(1): the digits of the leftmost match, "" when
\* there is none
RECURSIVE digits_then(_, _)
digits_then(s, unit) ==
    IF s = "" THEN ""
    ELSE LET digits == leading(s, DigitSet, Len(s))
         IN  IF digits # "" /\ startswith(lstrip(SubSeq(s, Len(digits) + 1, Len(s))), unit)
             THEN digits
             ELSE digits_then(Tail(s), unit)

\* re.search(r'(\d+\.?\d*)\s*<unit>', s, re.IGNORECASE) then float(group(1)), in units of
\* 1/scale.  ValueError stands for "no match".
RECURSIVE number_then(_, _, _)
number_then(s, unit, scale) ==
    IF s = "" THEN ValueError
    ELSE LET whole == leading(s, DigitSet, Len(s))
             rest == SubSeq(s, Len(whole) + 1, Len(s))
             point == rest # "" /\ Head(rest) = "."
             fraction == IF point THEN leading(Tail(rest), DigitSet, Len(rest)) ELSE ""
             tail == SubSeq(rest, Len(fraction) + (IF point THEN 2 ELSE 1), Len(rest))
         IN  IF whole # "" /\ startswith(lower(lstrip(tail)), unit)
             THEN scaled(whole, fraction, scale)
             ELSE number_then(Tail(s), unit, scale)

\* the units of volume_patterns that a text of the model can hold, in the order of the list
volume_patterns == <<"m3", "m^3", "cubic meter">>

RECURSIVE first_volume(_, _)
first_volume(body, patterns) ==
    IF patterns = <<>> THEN None
    ELSE IF number_then(body, Head(patterns), VolumeScale) # ValueError
    THEN Num(number_then(body, Head(patterns), VolumeScale))
    ELSE first_volume(body, Tail(patterns))

airport_mapping ==
    <<<<"BHX", "Birmingham Airport (BHX), B26 3QJ">>,
      <<"LHR", "Heathrow Airport (LHR), TW6 1EW">>,
      <<"LGW", "Gatwick Airport (LGW), RH6 0NP">>,
      <<"MAN", "Manchester Airport (MAN), M90 1QX">>,
      <<"STN", "Stansted Airport (STN), CM24 1RW">>,
      <<"EDI", "Edinburgh Airport (EDI), EH12 9DN">>,
      <<"GLA", "Glasgow Airport (GLA), PA3 2SW">>>>

\* delivery_time None is the text "None"
_fallback_extraction(subject, body) ==
    LET from_postcode == fallback_postcode(upper(body))
        quantity == digits_then(lower(body), "pallet")
        weight == digits_then(lower(body), "kg")
    IN  [freight_type |-> "pallets",
         quantity |-> [kind |-> "int", val |-> digits_value(quantity, 0)],
         total_weight |-> IF weight = "" THEN "0 kg" ELSE weight \o " kg",
         dimensions |-> <<>>,
         volume_m3 |-> first_volume(body, volume_patterns),
         from_address |-> IF from_postcode = "" THEN "" ELSE "Newport, " \o from_postcode,
         to_address |-> first_contained(body, airport_mapping),
         delivery_date |-> "",
         service_type |-> "ND",
         tail_lift_needed |-> FALSE,
         moffett_delivery |-> FALSE,
         delivery_time |-> "None",
         labeling_required |-> FALSE,
         awb_printing |-> FALSE,
         adr_surcharge |-> FALSE,
         special_requirements |-> ""]

\* the answer of the model: the call or json.loads raises, or there is a dict
extract_quote_info(email_subject, email_body, answer) ==
    IF answer.kind = "raises" \/ cleaning_raises(answer.data)
    THEN _fallback_extraction(email_subject, email_body)
    ELSE _validate_and_clean_data(answer.data)

(***************************************************************************)
(* calculate_quote, calculate_road_haulage_quote                           *)
(***************************************************************************)
\* the record as _calculate_pricing reads it: info.get(field, default) of every field
\* it reads (a pickup address or quantity that is missing is read as None)
info_read(info) ==
    [from_address |-> get(info, "from_address", ""),
     to_address |-> get(info, "to_address", ""),
     delivery_date |-> get(info, "delivery_date", ""),
     quantity |-> get(info, "quantity", None),
     total_weight |-> get(info, "total_weight", "0 kg"),
     dimensions |-> get(info, "dimensions", <<>>),
     volume_m3 |-> get(info, "volume_m3", None),
     service_type |-> get(info, "service_type", "E"),
     tail_lift_needed |-> get(info, "tail_lift_needed", FALSE),
     moffett_delivery |-> get(info, "moffett_delivery", FALSE),
     delivery_time |-> get(info, "delivery_time", "None"),
     adr_surcharge |-> get(info, "adr_surcharge", FALSE)]

calculate_quote(email_subject, email_body, answer) ==
    the({[extracted_info |-> extracted_info,
          quote_result |-> _calculate_pricing(info_read(extracted_info))] :
         extracted_info \in {extract_quote_info(email_subject, email_body, answer)}})

\* RoadHaulageQuoteCalculator() builds the extractor first, which needs the key of the
\* environment; the tables are what the three files hold, none for a file that is missing
calculate_road_haulage_quote(api_key, email_subject, email_body, answer) ==
    IF api_key = ""
    THEN Raised("ValueError", "OPENAI_API_KEY environment variable not set")
    ELSE calculate_quote(email_subject, email_body, answer)

(***************************************************************************)
(* The tables a calculator may be built from.                              *)
(***************************************************************************)
MaxZoneRows == 3

MaxPricingRows == 3

MaxQuantity == 8

ZoneRow(prefix, zone, levels) ==
    [Postcode_Prefix |-> prefix, Zone |-> zone, Service_Level |-> levels]

ZoneRows ==
    {ZoneRow("GU26-35", "3", "ND/E"), ZoneRow("GU (REST)", "2", "ND"),
     ZoneRow("PA20+", "5", "ND/E"), ZoneRow("CO", "1", "ND/E"),
     ZoneRow("G1-5", "6", "E")}

PriceRow(weight, zone, service, price) ==
    [Weight_KG |-> weight, Zone |-> zone, Service |-> service, Price_GBP |-> price]

PriceRows ==
    {PriceRow("250", "1", "ND", "25.00"), PriceRow("100", "1", "ND", "10.10"),
     PriceRow("500", "1", "ND", "P.O.A"), PriceRow("500", "1", "E", "10.304"),
     PriceRow("250", "5", "ND", "40.00")}

SurchargeRow(type, amount) == [Surcharge_Type |-> type, Amount_GBP |-> amount]

\* the sequences of at most n different rows
RECURSIVE tables_of(_, _)
tables_of(rows, n) ==
    IF n = 0 THEN {<<>>}
    ELSE LET shorter == tables_of(rows, n - 1)
         IN  shorter \cup
             {Append(t, r) : <<t, r>> \in
                 {<<t, r>> \in shorter \X rows :
                     Len(t) = n - 1 /\ \A k \in 1..Len(t) : t[k] # r}}

ZoneTables == tables_of(ZoneRows, MaxZoneRows)

PricingTables == tables_of(PriceRows, MaxPricingRows)

StandardZones ==
    <<ZoneRow("CO", "1", "ND/E"), ZoneRow("PA20+", "5", "ND/E"),
      ZoneRow("GU26-35", "3", "ND/E"), ZoneRow("GU (REST)", "2", "ND")>>

StandardPricing ==
    <<PriceRow("250", "1", "ND", "25.00"), PriceRow("100", "1", "ND", "10.10"),
      PriceRow("500", "1", "ND", "P.O.A"), PriceRow("500", "1", "E", "10.304"),
      PriceRow("250", "5", "ND", "40.00"), PriceRow("n/a", "1", "ND", "1.00")>>

StandardSurcharges ==
    <<SurchargeRow("Airway Bill Printing", "2.50"),
      SurchargeRow("Cargo Identification Labels (per item)", "0.30"),
      SurchargeRow("Tail-lift delivery", "12.50"),
      SurchargeRow("Moffat delivery (8+ pallets)", "35.00"),
      SurchargeRow("AM or PM delivery", "15.00"),
      SurchargeRow("ADR (dangerous goods)", "20.00"),
      SurchargeRow("London congestion", "10.00")>>

SurchargeTables ==
    {<<>>, StandardSurcharges,
     <<SurchargeRow("Cargo identification labels", "0.25"),
       SurchargeRow("Airway bill printing", "on request"),
       SurchargeRow("London", "7.50")>>}

(***************************************************************************)
(* The arguments of the calls.                                             *)
(***************************************************************************)
Qty(n) == [kind |-> "int", val |-> n]

Addresses ==
    {"", "CO7 7AB", "Unit 4, Guildford gu2 8ab", "GU3 5AB", "GU35 1AB", "PA3 2SW",
     "CO7", "Glasgow Airport", "Somewhere", "ZZ1 1ZZ"}

Postcodes ==
    {"", "CO7 7AB", "gu2 8ab", "GU3 5AB", "GU35 1AB", "GU30A 1AB", "PA3 2SW",
     "PA1 9ZZ", "G3 1AB", "GU5A 1AB", "ZZ1 1ZZ", "123"}

Kg(n) == n * WeightScale

Weights == {0, Kg(100), Kg(180), Kg(250), Kg(250) + 1, Kg(500), Kg(600)}

DimensionLists ==
    {<<>>, <<"120x80x100">>, <<"120x80x100cm", "60 x 40 x 50">>, <<"two by four">>}

Volumes == {None, Num(0), Num(13550), Str("13.550 M3"), Str("")}

Shipment(from_address, quantity, service_type) ==
    [from_address |-> from_address, to_address |-> "BHX", delivery_date |-> "",
     quantity |-> quantity, total_weight |-> "180 kg", dimensions |-> <<"120x80x100">>,
     volume_m3 |-> None, service_type |-> service_type,
     tail_lift_needed |-> FALSE, moffett_delivery |-> FALSE, delivery_time |-> "None",
     adr_surcharge |-> FALSE]

\* the records differ in a few fields at a time: in where from and how many, in what
\* is weighed, in what is asked for on delivery
Shipments ==
    {Shipment(a, q, s) : a \in Addresses, q \in {None, Qty(-1), Qty(0), Qty(1), Qty(MaxQuantity)},
                         s \in {"ND", "Economy", "E"}}
    \cup {[Shipment("CO7 7AB", Qty(q), "ND") EXCEPT
              !.total_weight = w, !.dimensions = d, !.volume_m3 = v] :
          q \in {1, 2}, w \in {"", "90 kg", "600.5 KG"}, d \in DimensionLists,
          v \in Volumes}
    \cup {[Shipment(a, Qty(q), "ND") EXCEPT
              !.tail_lift_needed = t, !.moffett_delivery = m, !.delivery_time = dt,
              !.adr_surcharge = adr] :
          a \in {"CO7 7AB", "PA3 2SW"}, q \in {MaxQuantity - 1, MaxQuantity},
          t \in BOOLEAN, m \in BOOLEAN, dt \in {"AM", "None"}, adr \in BOOLEAN}

Flags ==
    {[tail_lift_needed |-> t, moffett_delivery |-> m, delivery_time |-> dt,
      adr_surcharge |-> adr] :
     t \in BOOLEAN, m \in BOOLEAN, dt \in {"AM", "PM", "None"}, adr \in BOOLEAN}

\* records that also say whether labels and the airway bill were asked for
LabelFlags ==
    {[tail_lift_needed |-> FALSE, moffett_delivery |-> FALSE, delivery_time |-> "None",
      adr_surcharge |-> adr, labeling_required |-> l, awb_printing |-> a] :
     adr \in BOOLEAN, l \in BOOLEAN, a \in BOOLEAN}

BasePrices == {0, 1010000, 1030400}

\* pickup addresses that are a bare postcode prefix, and some that are not
PickupTexts == {"GU3", " co7 ", "ZZ1", "PA20", "B1", "BH1A", "GLA1", "CO7 7AB", "Colchester"}

\* what is mailed in
Subjects == {"Quote request"}

Bodies ==
    {"", "3 pallets 180kg from CO7 7AB to BHX",
     "Please quote 2 Pallets 1.5 m3 collect gu3 5ab deliver lhr",
     "ref XCO7 7ABZ 1 pallet 50 KG 2 cubic meter GLA",
     "10 pallets, 600 kg, LGW or MAN"}

\* what the language model answers: nothing that parses, every field of the prompt, or
\* some of them
Raises == [kind |-> "raises"]

Answer(data) == [kind |-> "dict", data |-> data]

FullAnswer ==
    [freight_type |-> "pallets", quantity |-> Qty(2), total_weight |-> "180 kg",
     dimensions |-> <<"120x80x100">>, volume_m3 |-> None, from_address |-> "CO7 7AB",
     to_address |-> "BHX", delivery_date |-> "", service_type |-> "ND",
     tail_lift_needed |-> FALSE, moffett_delivery |-> FALSE, delivery_time |-> "None",
     labeling_required |-> FALSE, awb_printing |-> FALSE, adr_surcharge |-> FALSE,
     special_requirements |-> "deliver to lhr"]

Answers ==
    {Raises}
    \cup {Answer([FullAnswer EXCEPT !.quantity = q]) :
          q \in {Qty(2), Qty(0), Str("3 pallets"), Str("some"), Str(""), None}}
    \cup {Answer([FullAnswer EXCEPT !.total_weight = w]) :
          w \in {"0.5 ton", "125 lb", "heavy", ""}}
    \cup {Answer([FullAnswer EXCEPT !.volume_m3 = v, !.dimensions = <<>>]) :
          v \in {Str("1.5 m3"), Str("large"), Num(13550), Num(0)}}
    \cup {Answer([FullAnswer EXCEPT !.from_address = a, !.to_address = ""]) :
          a \in {"", "  ", "PA3 2SW"}}
    \cup {Answer([quantity |-> Qty(2), total_weight |-> "100 kg",
                  from_address |-> "CO7 7AB", to_address |-> "BHX"]),
          Answer([dimensions |-> <<"120x80x100">>, from_address |-> "CO7 7AB"]),
          Answer([freight_type |-> "pallets", quantity |-> Str("4"),
                  service_type |-> "Economy", special_requirements |-> "via GLA"])}

\* the key of the environment: not set, or set
ApiKeys == {"", "sk-test"}

(***************************************************************************)
(* The calculator: built once, then one call after the other.              *)
(***************************************************************************)
Idle == [op |-> "idle"]

Init ==
    /\ zones_data \in {<<>>, StandardZones}
    /\ pricing_data \in {<<>>, StandardPricing}
    /\ surcharges_data \in SurchargeTables
    /\ call = Idle
    /\ ret = None

Tables == <<pricing_data, zones_data, surcharges_data>>

CalculatePricing(info) ==
    /\ call = Idle
    /\ call' = [op |-> "_calculate_pricing", info |-> info]
    /\ ret' = _calculate_pricing(info)
    /\ UNCHANGED Tables

MutFindZoneConsumesRow(postcode) ==
    /\ call = Idle
    /\ call' = [op |-> "_find_zone_by_postcode", postcode |-> postcode]
    /\ ret' = _find_zone_by_postcode(postcode)
    /\ zones_data' = IF zones_data = <<>> THEN zones_data ELSE Tail(zones_data)
    /\ UNCHANGED <<pricing_data, surcharges_data>>

FindZone(postcode) ==
    /\ call = Idle
    /\ call' = [op |-> "_find_zone_by_postcode", postcode |-> postcode]
    /\ ret' = _find_zone_by_postcode(postcode)
    /\ UNCHANGED Tables

ExtractPostcode(address) ==
    /\ call = Idle
    /\ call' = [op |-> "_extract_postcode", address |-> address]
    /\ ret' = IF _extract_postcode(address) = "" THEN None
              ELSE Str(_extract_postcode(address))
    /\ UNCHANGED Tables

FindBasePrice(weight, zone, service) ==
    /\ call = Idle
    /\ call' = [op |-> "_find_base_price", weight |-> weight, zone |-> zone,
                service |-> service]
    /\ ret' = _find_base_price(weight, zone, service)
    /\ UNCHANGED Tables

CalculateBillableWeight(weight_kg, quantity, dimensions, volume_m3) ==
    /\ call = Idle
    /\ call' = [op |-> "_calculate_billable_weight", weight_kg |-> weight_kg,
                quantity |-> quantity, dimensions |-> dimensions, volume_m3 |-> volume_m3]
    /\ ret' = Num(_calculate_billable_weight(weight_kg, quantity, dimensions, volume_m3))
    /\ UNCHANGED Tables

CalculateVolumeWeight(dimensions, quantity, volume_m3) ==
    /\ call = Idle
    /\ call' = [op |-> "_calculate_volume_weight", dimensions |-> dimensions,
                quantity |-> quantity, volume_m3 |-> volume_m3]
    /\ ret' = Num(_calculate_volume_weight(dimensions, quantity, volume_m3))
    /\ UNCHANGED Tables

CalculateSurcharges(info, base_price, zone, quantity) ==
    /\ call = Idle
    /\ call' = [op |-> "_calculate_surcharges", info |-> info, base_price |-> base_price,
                zone |-> zone, quantity |-> quantity]
    /\ ret' = _calculate_surcharges(info, base_price, zone, quantity)
    /\ UNCHANGED Tables

\* the caller takes the result; the calculator keeps nothing of the call
Return ==
    /\ call # Idle
    /\ call' = Idle
    /\ ret' = None
    /\ UNCHANGED Tables

Next ==
    \/ \E info \in Shipments : CalculatePricing(info)
    \/ \E postcode \in Postcodes : FindZone(postcode)
    \/ \E weight \in Weights, zone \in {"1", "2", "5"}, service \in {"ND", "E"} :
          FindBasePrice(weight, zone, service)
    \/ \E weight_kg \in {0, Kg(500), Kg(2000)}, quantity \in {-1, 1, 2, 5},
          dimensions \in DimensionLists, volume_m3 \in Volumes :
          CalculateBillableWeight(weight_kg, quantity, dimensions, volume_m3)
    \/ \E quantity \in {-1, 1, 2, 5}, dimensions \in DimensionLists, volume_m3 \in Volumes :
          CalculateVolumeWeight(dimensions, quantity, volume_m3)
    \/ \E info \in Flags \cup LabelFlags, base_price \in BasePrices, zone \in {"1", "5", "6"},
          quantity \in {MaxQuantity - 1, MaxQuantity} :
          CalculateSurcharges(info, base_price, zone, quantity)
    \/ Return

Spec == Init /\ [][Next]_vars

(***************************************************************************)
(* Zone resolution alone, over every small zone table.                     *)
(***************************************************************************)
InitZones ==
    /\ zones_data \in ZoneTables
    /\ pricing_data = StandardPricing
    /\ surcharges_data = StandardSurcharges
    /\ call = Idle
    /\ ret = None

NextZones ==
    \/ \E postcode \in Postcodes : FindZone(postcode)
    \/ \E address \in PickupTexts : ExtractPostcode(address)
    \/ Return

SpecZones == InitZones /\ [][NextZones]_vars

(***************************************************************************)
(* The price lookup alone, over every small pricing table.                 *)
(***************************************************************************)
InitPrices ==
    /\ zones_data = StandardZones
    /\ pricing_data \in PricingTables
    /\ surcharges_data = StandardSurcharges
    /\ call = Idle
    /\ ret = None

NextPrices ==
    \/ \E weight \in Weights, zone \in {"1", "2", "5"}, service \in {"ND", "E"} :
          FindBasePrice(weight, zone, service)
    \/ Return

SpecPrices == InitPrices /\ [][NextPrices]_vars
(***************************************************************************)
(* From the mail to the quote: the extractor and the public operations.    *)
(***************************************************************************)
ExtractQuoteInfo(email_subject, email_body, answer) ==
    /\ call = Idle
    /\ call' = [op |-> "extract_quote_info", email_subject |-> email_subject,
                email_body |-> email_body, answer |-> answer]
    /\ ret' = extract_quote_info(email_subject, email_body, answer)
    /\ UNCHANGED Tables

CalculateQuote(email_subject, email_body, answer) ==
    /\ call = Idle
    /\ call' = [op |-> "calculate_quote", email_subject |-> email_subject,
                email_body |-> email_body, answer |-> answer]
    /\ ret' = calculate_quote(email_subject, email_body, answer)
    /\ UNCHANGED Tables

CalculateRoadHaulageQuote(api_key, email_subject, email_body, answer) ==
    /\ call = Idle
    /\ call' = [op |-> "calculate_road_haulage_quote", api_key |-> api_key,
                email_subject |-> email_subject, email_body |-> email_body,
                answer |-> answer]
    /\ ret' = calculate_road_haulage_quote(api_key, email_subject, email_body, answer)
    /\ UNCHANGED Tables

NextQuotes ==
    \/ \E email_subject \in Subjects, email_body \in Bodies, answer \in Answers :
          ExtractQuoteInfo(email_subject, email_body, answer)
    \/ \E email_subject \in Subjects, email_body \in Bodies, answer \in Answers :
          CalculateQuote(email_subject, email_body, answer)
    \/ \E api_key \in ApiKeys, email_subject \in Subjects, email_body \in Bodies,
          answer \in Answers :
          CalculateRoadHaulageQuote(api_key, email_subject, email_body, answer)
    \/ \E info \in Shipments : CalculatePricing(info)
    \/ Return

SpecQuotes == Init /\ [][NextQuotes]_vars
(***************************************************************************)
(* Properties.                                                             *)
(***************************************************************************)
Called(op) == call # Idle /\ call.op = op

Quoted == Called("_calculate_pricing") /\ ret.kind = "success"

\* C1: every call of _calculate_billable_weight returns the larger of the actual
\* weight and the volumetric weight of its arguments, so never less than the actual
\* weight; the weight a quote is billed for is never below its actual weight either.
C1_BillableIsMaxOfActualAndVolume ==
    /\ Called("_calculate_billable_weight") =>
          LET volume_weight == _calculate_volume_weight(call.dimensions, call.quantity,
                                                        call.volume_m3)
          IN  /\ ret.val >= call.weight_kg
              /\ ret.val >= volume_weight
              /\ ret.val \in {call.weight_kg, volume_weight}
    /\ Quoted => ret.locals.billable_weight >= ret.locals.weight_kg

\* a call where the volumetric weight wins over an actual weight that is not 0
C1_Witness ==
    /\ Called("_calculate_billable_weight")
    /\ call.weight_kg > 0
    /\ ret.val > call.weight_kg

RECURSIVE sum_rounded(_)
sum_rounded(breakdown) ==
    IF breakdown = <<>> THEN 0
    ELSE Round2(Head(breakdown).amount) + sum_rounded(Tail(breakdown))

\* C2: the 'total' that _calculate_surcharges returns equals the sum of the amounts of
\* its 'breakdown', each rounded to 2 decimal places.
C2_TotalIsSumOfRoundedLines ==
    Called("_calculate_surcharges") => ret.total = sum_rounded(ret.breakdown)

RECURSIVE sum_lines(_, _)
sum_lines(quote_breakdown, labels) ==
    IF labels = <<>> THEN 0
    ELSE quote_breakdown[Head(labels)] + sum_lines(quote_breakdown, Tail(labels))

\* C3: in every successful quote the five amounts of quote_breakdown (collection and
\* delivery, fuel surcharge, airway bill printing, labels, other surcharges) add up to
\* its Total, to the penny.
C3_LinesAddUpToTotal ==
    Quoted =>
        sum_lines(ret.quote_breakdown, breakdown_amounts(ret.other_details.quantity))
            = ret.quote_breakdown["Total"]

(***************************************************************************)
(* How an entry of the zone map reads: its base letters and its bounds.    *)
(***************************************************************************)
entry_prefix(row) == upper(strip(row.Postcode_Prefix))

entry_base(row) ==
    LET base_part == first_word(entry_prefix(row))
    IN  leading(base_part, UpperSet, Len(base_part))

is_ranged(row) == Contains(entry_prefix(row), "-")

is_plus(row) == ~is_ranged(row) /\ Contains(entry_prefix(row), "+")

is_rest(row) ==
    /\ ~is_ranged(row) /\ ~is_plus(row)
    /\ Contains(entry_prefix(row), " ") /\ Contains(entry_prefix(row), "(")

entry_low(row) == int(remove(before(entry_prefix(row), "-"), entry_base(row)))

entry_high(row) == int(after(entry_prefix(row), "-"))

entry_min(row) == int(remove(before(entry_prefix(row), "+"), entry_base(row)))

postcode_letters(postcode) == leading(remove(upper(postcode), " "), UpperSet, 2)

\* the numeric portion of a postcode after the base letters, as the lookup reads it
has_numeric_portion(postcode, base) ==
    prefix_num_match(remove(upper(postcode), " "), base) # ""

numeric_portion(postcode, base) ==
    int(prefix_num_match(remove(upper(postcode), " "), base))

\* the postcode has the base letters of the entry and its number is within the
\* bounds the entry names
satisfies_entry(row, postcode) ==
    /\ postcode_letters(postcode) = entry_base(row)
    /\ has_numeric_portion(postcode, entry_base(row))
    /\ LET n == numeric_portion(postcode, entry_base(row))
       IN  IF is_ranged(row) THEN entry_low(row) <= n /\ n <= entry_high(row)
           ELSE n >= entry_min(row)

resolves_to(row) ==
    ret = [kind |-> "zone", Zone |-> row.Zone, Service_Level |-> row.Service_Level]

\* C4: a ranged entry 'XX<low>-<high>' at the head of the zone map matches a postcode
\* with the base letters XX if and only if the postcode's number n has low <= n <= high.
C4_RangedEntryMatchesWithinBounds ==
    (/\ Called("_find_zone_by_postcode")
     /\ zones_data # <<>>
     /\ is_ranged(zones_data[1])
     /\ postcode_letters(call.postcode) = entry_base(zones_data[1])
     /\ has_numeric_portion(call.postcode, entry_base(zones_data[1])))
    => (resolves_to(zones_data[1]) <=> satisfies_entry(zones_data[1], call.postcode))

\* C5: when the zone map holds a ranged or '+' entry and a '(REST)' entry for the same
\* base letters, in whichever order, a postcode that satisfies the ranged or '+' entry
\* resolves to that entry's zone, never to the zone of the REST entry.
C5_SpecificEntryBeatsRest ==
    Called("_find_zone_by_postcode") =>
        \A i, j \in 1..Len(zones_data) :
            (/\ is_ranged(zones_data[i]) \/ is_plus(zones_data[i])
             /\ is_rest(zones_data[j])
             /\ entry_base(zones_data[i]) = entry_base(zones_data[j])
             /\ satisfies_entry(zones_data[i], call.postcode))
            => resolves_to(zones_data[i])

\* C6: no step of the calculator changes pricing_data, zones_data or surcharges_data,
\* and so the zone and service levels that _find_zone_by_postcode gives for a postcode
\* are the same before and after every step.
C6_TablesAreNeverModified ==
    [][/\ Tables' = Tables
       /\ \A p \in Postcodes : find_zone_in(zones_data', p) = find_zone_in(zones_data, p)]_vars

\* a quote has been priced from tables that are not empty
C6_Witness ==
    /\ Quoted
    /\ zones_data # <<>> /\ pricing_data # <<>> /\ surcharges_data # <<>>
    /\ ret.quote_breakdown["Total"] > 0

(***************************************************************************)
(* The tier a weight is priced at, said without the loop of the lookup.    *)
(***************************************************************************)
tiers_present == {collect_weight_tiers(pricing_data)[k] :
                    k \in 1..Len(collect_weight_tiers(pricing_data))}

smallest_tier_at_least(weight) ==
    CHOOSE t \in tiers_present :
        t >= weight /\ \A u \in tiers_present : u >= weight => t <= u

largest_tier == CHOOSE t \in tiers_present : \A u \in tiers_present : u <= t

expected_tier(weight) ==
    IF \E t \in tiers_present : t >= weight
    THEN smallest_tier_at_least(weight) ELSE largest_tier

selected_tier(weight) == select_tier(collect_weight_tiers(pricing_data), weight)

\* the rows of the table for a tier, zone and service
rate_rows(tier, zone, service) ==
    {k \in 1..Len(pricing_data) :
        /\ float(pricing_data[k].Weight_KG, WeightScale) = tier
        /\ pricing_data[k].Zone = zone
        /\ pricing_data[k].Service = service}

\* C7: with a rate table that is not empty the lookup prices a weight at the smallest
\* tier of the table that is >= the weight, and at the largest tier, without an error,
\* when the weight is above every tier; of the tiers 100, 250 and 500, weight 180
\* selects 250 and weight 600 selects 500.
C7_SmallestTierAtLeastWeightElseLargest ==
    /\ (Called("_find_base_price") /\ tiers_present # {}) =>
          /\ selected_tier(call.weight) = expected_tier(call.weight)
          /\ ret = price_of_tier(pricing_data, expected_tier(call.weight),
                                 call.zone, call.service)
          /\ ret \in {Str("P.O.A")} \cup {Num(p) : p \in {0, 1010000, 2500000, 1030400, 4000000}}
    /\ select_tier(<<Kg(100), Kg(250), Kg(500)>>, Kg(180)) = Kg(250)
    /\ select_tier(<<Kg(500), Kg(100), Kg(250)>>, Kg(600)) = Kg(500)

\* weight 600 against the tiers 100, 250 and 500: priced at the row of tier 500
C7_Witness ==
    /\ Called("_find_base_price")
    /\ tiers_present = {Kg(100), Kg(250), Kg(500)}
    /\ call.weight = Kg(600) /\ call.zone = "1" /\ call.service = "ND"
    /\ ret = Str("P.O.A")

\* C8: for a fixed rate table, of two weights w1 <= w2 the tier selected for w1 is <=
\* the tier selected for w2.
C8_TierSelectionIsMonotonic ==
    (Called("_find_base_price") /\ tiers_present # {}) =>
        \A w2 \in Weights :
            /\ call.weight <= w2 => selected_tier(call.weight) <= selected_tier(w2)
            /\ w2 <= call.weight => selected_tier(w2) <= selected_tier(call.weight)

\* a weight just above tier 250 is priced at a higher tier than tier 250 itself
C8_Witness ==
    /\ Called("_find_base_price")
    /\ call.weight = Kg(250) + 1
    /\ {Kg(250), Kg(500)} \subseteq tiers_present
    /\ selected_tier(Kg(250)) = Kg(250)
    /\ selected_tier(call.weight) = Kg(500)

\* the first row for the tier, zone and service is marked price on application
poa_row(tier, zone, service) ==
    /\ rate_rows(tier, zone, service) # {}
    /\ LET k == CHOOSE k \in rate_rows(tier, zone, service) :
                    \A m \in rate_rows(tier, zone, service) : k <= m
       IN  pricing_data[k].Price_GBP = "P.O.A"

\* the price has been looked up for the quote
price_looked_up == Called("_calculate_pricing") /\ "locals" \in DOMAIN ret

\* C9: when the row for the selected tier, zone and service has price 'P.O.A',
\* _find_base_price returns 'P.O.A' and _calculate_pricing returns the failure
\* 'Price on application - please contact us' with no breakdown and no Total.
C9_PriceOnApplicationIsAFailure ==
    /\ (/\ Called("_find_base_price")
        /\ tiers_present # {}
        /\ poa_row(expected_tier(call.weight), call.zone, call.service))
       => ret = Str("P.O.A")
    /\ (/\ price_looked_up
        /\ tiers_present # {}
        /\ poa_row(expected_tier(ret.locals.billable_weight), ret.locals.zone,
                   ret.locals.service_code))
       => /\ ret.kind = "error"
          /\ ret.error = "Price on application - please contact us"
          /\ "quote_breakdown" \notin DOMAIN ret
          /\ ret.locals.base_price = Str("P.O.A")

\* a quote whose rate row is marked price on application
C9_Witness ==
    /\ price_looked_up
    /\ tiers_present # {}
    /\ poa_row(expected_tier(ret.locals.billable_weight), ret.locals.zone,
               ret.locals.service_code)
    /\ ret.kind = "error"

\* the table has no row for the tier the weight selects, the zone and the service
no_rate_row(weight, zone, service) ==
    \/ pricing_data = <<>>
    \/ tiers_present = {}
    \/ rate_rows(expected_tier(weight), zone, service) = {}

\* C10: when the rate table has no row for the selected tier, zone and service, or is
\* empty, _find_base_price returns 0 and the quote is a success with base price 0.
C10_NoRateRowPricesAtZero ==
    /\ (Called("_find_base_price") /\ no_rate_row(call.weight, call.zone, call.service))
       => ret = Num(0)
    /\ (/\ price_looked_up
        /\ no_rate_row(ret.locals.billable_weight, ret.locals.zone,
                       ret.locals.service_code))
       => /\ ret.kind = "success"
          /\ ret.locals.base_price = Num(0)
          /\ ret.quote_breakdown["Collection & Delivery"] = 0

\* a quote from a rate table that has rows, none of them for the zone of the postcode
C10_Witness ==
    /\ Quoted
    /\ pricing_data # <<>>
    /\ no_rate_row(ret.locals.billable_weight, ret.locals.zone, ret.locals.service_code)
    /\ ret.quote_breakdown["Collection & Delivery"] = 0
    /\ ret.quote_breakdown["Total"] > 0

(***************************************************************************)
(* The volume a call names, and the weight it stands for.                  *)
(***************************************************************************)
\* the explicit volume of a call in litres, 0 when none is given: a number, or the
\* number in a text such as "13.550 M3"
explicit_volume(volume_m3) ==
    IF volume_m3.kind = "float" THEN volume_m3.val
    ELSE IF volume_m3.kind = "str" /\ search_number(volume_m3.s, VolumeScale) # ValueError
    THEN search_number(volume_m3.s, VolumeScale)
    ELSE 0

\* grams for litres at 333 kg per m3
weight_of_volume(litres) == litres * KgPerM3 * (WeightScale \div VolumeScale)

dimension_litres(dim) ==
    CASE dim \in {"120x80x100", "120x80x100cm"} -> 960
      [] dim = "60 x 40 x 50" -> 120
      [] OTHER -> 0

RECURSIVE dimensions_litres(_, _)
dimensions_litres(dimensions, k) ==
    IF k = 0 THEN 0
    ELSE dimension_litres(dimensions[k]) + dimensions_litres(dimensions, k - 1)

\* C12: with no explicit volume > 0 and a dimension list that is not empty, the volume
\* is the sum of l/100 * w/100 * h/100 over the dimension texts, times the quantity when
\* there is one text and quantity > 1, and not multiplied when there are more texts.
C12_VolumeFromDimensions ==
    (/\ Called("_calculate_volume_weight")
     /\ explicit_volume(call.volume_m3) <= 0
     /\ call.dimensions # <<>>)
    => LET summed == dimensions_litres(call.dimensions, Len(call.dimensions))
       IN  ret.val = weight_of_volume(IF Len(call.dimensions) = 1 /\ call.quantity > 1
                                      THEN summed * call.quantity ELSE summed)

\* one text of 0.96 m3 for 5 items: 4.8 m3
C12_Witness ==
    /\ Called("_calculate_volume_weight")
    /\ call.volume_m3 = None
    /\ call.dimensions = <<"120x80x100">>
    /\ call.quantity = 5
    /\ ret.val = weight_of_volume(5 * 960)

\* C13: with no explicit volume and no dimensions the volumetric weight is quantity x
\* 1.152 x 333; 5 pallets of actual weight 500 kg are billed at 1918.08 kg.
C13_StandardPalletFallback ==
    /\ (/\ Called("_calculate_volume_weight")
        /\ explicit_volume(call.volume_m3) <= 0
        /\ call.dimensions = <<>>)
       => ret.val = call.quantity * 1152 * 333
    /\ (/\ Called("_calculate_billable_weight")
        /\ call.volume_m3 = None /\ call.dimensions = <<>>
        /\ call.quantity = 5 /\ call.weight_kg = Kg(500))
       => ret.val = 1918080

\* 5 pallets, 500 kg, nothing said of their size
C13_Witness ==
    /\ Called("_calculate_billable_weight")
    /\ call.volume_m3 = None /\ call.dimensions = <<>>
    /\ call.quantity = 5 /\ call.weight_kg = Kg(500)
    /\ ret.val = 1918080

(***************************************************************************)
(* The stages of _calculate_pricing, read from the call and the tables.    *)
(***************************************************************************)
\* the service levels of a zone, 'ND/E' being ND and E
RECURSIVE service_levels(_)
service_levels(service_level) ==
    IF Contains(service_level, "/")
    THEN {before(service_level, "/")} \cup service_levels(after(service_level, "/"))
    ELSE {service_level}

record_is_valid(info) ==
    /\ info.from_address # ""
    /\ info.quantity # None
    /\ info.quantity.val # 0

\* the record passes validation, its postcode is found and the postcode has a zone
zone_is_found(info) ==
    /\ record_is_valid(info)
    /\ _extract_postcode(info.from_address) # ""
    /\ _find_zone_by_postcode(_extract_postcode(info.from_address)) # None

zone_found(info) == _find_zone_by_postcode(_extract_postcode(info.from_address))

C15_EarliestFailingStageIsReported ==
    Called("_calculate_pricing") =>
        LET info == call.info
            postcode == _extract_postcode(info.from_address)
        IN  IF info.from_address = "" THEN ret = Error("Missing pickup address")
            ELSE IF info.quantity = None \/ info.quantity.val = 0
            THEN ret = Error("Missing or invalid quantity")
            ELSE IF postcode = ""
            THEN ret = Error("Could not extract postcode from pickup address: "
                                \o info.from_address)
            ELSE IF _find_zone_by_postcode(postcode) = None
            THEN ret = Error("Service not available for postcode: " \o postcode)
            ELSE /\ "locals" \in DOMAIN ret
                 /\ ret.kind = "error"
                       => ret.error = "Price on application - please contact us"

\* quantity 0 from an address that holds no postcode: the quantity is reported
C15_Witness ==
    /\ Called("_calculate_pricing")
    /\ call.info.from_address = "Somewhere"
    /\ call.info.quantity = Qty(0)
    /\ ret = Error("Missing or invalid quantity")

\* the whole address, trimmed and in capitals, is 1-2 letters, 1-2 digits and at most
\* one more letter, and no full postcode is in the address
bare_prefix_address(address) ==
    /\ address # ""
    /\ first_postcode(address) = ""
    /\ is_bare_prefix(strip(upper(address)))

\* C18: for an address that is a bare postcode prefix _extract_postcode returns a
\* postcode whatever the zone table holds: the sample postcode of the prefix when the
\* fixed table has one, the prefix followed by ' 1AB' otherwise; it never returns None
\* and never goes on to the airport codes or the location names.
C18_BarePrefixAlwaysGivesPostcode ==
    (Called("_extract_postcode") /\ bare_prefix_address(call.address))
    => LET address_upper == strip(upper(call.address))
           sample == first_started(address_upper, sample_postcodes)
       IN  ret = Str(IF sample # "" THEN sample ELSE address_upper \o " 1AB")

(***************************************************************************)
(* The lines of a surcharge breakdown.                                     *)
(***************************************************************************)
has_line(breakdown, label) == \E k \in 1..Len(breakdown) : breakdown[k].label = label

line_amount(breakdown, label) ==
    breakdown[CHOOSE k \in 1..Len(breakdown) : breakdown[k].label = label].amount

\* C19: the Moffett delivery fee is a line of the surcharge breakdown, and part of the
\* total, if and only if the flag is set and quantity >= 8; with the flag set and
\* quantity <= 7 the fee is left out, and the flag never turns a quote into a failure.
C19_MoffettFeeFromEightItems ==
    /\ Called("_calculate_surcharges") =>
          LET due == call.info.moffett_delivery /\ call.quantity >= 8
              without == _calculate_surcharges([call.info EXCEPT !.moffett_delivery = FALSE],
                                               call.base_price, call.zone, call.quantity)
          IN  /\ has_line(ret.breakdown, "Moffett Delivery") <=> due
              /\ due => line_amount(ret.breakdown, "Moffett Delivery")
                            = _get_surcharge_amount("Moffat")
              /\ ret.total = without.total + (IF due THEN _get_surcharge_amount("Moffat") ELSE 0)
    /\ (Called("_calculate_pricing") /\ call.info.moffett_delivery)
       => /\ ret.kind = _calculate_pricing([call.info EXCEPT !.moffett_delivery = FALSE]).kind
          /\ ret.kind = "success" =>
                (has_line(ret.other_details.surcharge_details, "Moffett Delivery")
                    <=> ret.other_details.quantity >= 8)

\* the flag is set for fewer than 8 items: a quote without the fee
C19_Witness ==
    /\ Quoted
    /\ call.info.moffett_delivery
    /\ ret.other_details.quantity < 8
    /\ _get_surcharge_amount("Moffat") > 0
    /\ ~has_line(ret.other_details.surcharge_details, "Moffett Delivery")

\* C20: the London surcharge is a line of the surcharge breakdown if and only if the
\* zone is '5' or '6'.
C20_LondonLineInZones5And6 ==
    /\ Called("_calculate_surcharges") =>
          /\ has_line(ret.breakdown, "London Surcharge") <=> call.zone \in {"5", "6"}
          /\ call.zone \in {"5", "6"} =>
                line_amount(ret.breakdown, "London Surcharge") = _get_surcharge_amount("London")
    /\ Quoted =>
          (has_line(ret.other_details.surcharge_details, "London Surcharge")
              <=> ret.other_details.zone \in {"5", "6"})

\* the surcharges of zone '6' hold the London line
C20_Witness ==
    /\ Called("_calculate_surcharges")
    /\ call.zone = "6"
    /\ _get_surcharge_amount("London") > 0
    /\ has_line(ret.breakdown, "London Surcharge")

(***************************************************************************)
(* The public operations and what they end with.                           *)
(***************************************************************************)
public_operations == {"calculate_road_haulage_quote", "calculate_quote", "_calculate_pricing"}

escaped(result) == "kind" \in DOMAIN result /\ result.kind = "raised"

\* what the caller of a public operation holds as the result of the quote
quote_result_of(result) ==
    IF "quote_result" \in DOMAIN result THEN result.quote_result ELSE result

is_success(result) ==
    /\ result.kind = "success"
    /\ "Total" \in DOMAIN result.quote_breakdown
    /\ "other_details" \in DOMAIN result

is_failure(result) == result.kind = "error" /\ result.error # ""

\* C16: every public quote operation, whatever the record and the tables (empty tables
\* of missing files among them), ends with exactly one of a success (breakdown with
\* Total, and details) and a failure with its reason; no exception escapes.
C16_PublicOperationsEndWithAResult ==
    (call # Idle /\ call.op \in public_operations)
        => /\ ~escaped(ret)
           /\ is_success(quote_result_of(ret)) # is_failure(quote_result_of(ret))

(***************************************************************************)
(* The record of the extraction contract.                                  *)
(***************************************************************************)
contract_fields ==
    {"freight_type", "quantity", "total_weight", "dimensions", "volume_m3",
     "from_address", "to_address", "delivery_date", "service_type",
     "tail_lift_needed", "moffett_delivery", "delivery_time", "labeling_required",
     "awb_printing", "adr_surcharge"}

answer_fails(answer) == answer.kind = "raises" \/ cleaning_raises(answer.data)

\* C17: when the call of the language model or the cleaning of its answer fails,
\* extract_quote_info returns the record of the fallback, and the record handed to the
\* engine, cleaned answer or fallback, always holds every field of the contract.
C17_ExtractedRecordHasEveryField ==
    /\ Called("extract_quote_info") =>
          /\ answer_fails(call.answer)
                => ret = _fallback_extraction(call.email_subject, call.email_body)
          /\ contract_fields \subseteq DOMAIN ret
    /\ Called("calculate_quote") => contract_fields \subseteq DOMAIN ret.extracted_info

(***************************************************************************)
(* The two fees of every order.                                            *)
(***************************************************************************)
labels_label(quantity) == "Cargo Identification Labels (" \o ToString(quantity) \o " items)"

\* does a row of the surcharge table carry the name?
surcharge_known(surcharge_type) ==
    \E k \in 1..Len(surcharges_data) :
        Contains(lower(surcharges_data[k].Surcharge_Type), lower(surcharge_type))

\* C21: every surcharge computation, whatever labeling_required and awb_printing say,
\* holds one airway bill printing fee and a labels fee of the table's rate per item
\* times the quantity; a surcharge that no row of the table names adds 0.
C21_PrintingAndLabelFeesAlways ==
    Called("_calculate_surcharges") =>
        /\ has_line(ret.breakdown, "Airway Bill Printing")
        /\ line_amount(ret.breakdown, "Airway Bill Printing")
              = _get_surcharge_amount("Airway Bill Printing")
        /\ Cardinality({k \in 1..Len(ret.breakdown) :
                            ret.breakdown[k].label = "Airway Bill Printing"}) = 1
        /\ has_line(ret.breakdown, labels_label(call.quantity))
        /\ line_amount(ret.breakdown, labels_label(call.quantity))
              = _get_surcharge_amount("Cargo Identification Labels") * call.quantity
        /\ \A name \in {"Airway Bill Printing", "Cargo Identification Labels", "Tail-lift",
                        "Moffat", "AM or PM", "ADR", "London"} :
              ~surcharge_known(name) => _get_surcharge_amount(name) = 0
        /\ ~surcharge_known("Airway Bill Printing")
              => line_amount(ret.breakdown, "Airway Bill Printing") = 0
        /\ ret.total >= line_amount(ret.breakdown, "Airway Bill Printing")
                          + line_amount(ret.breakdown, labels_label(call.quantity))

\* neither fee was asked for, and both are charged
C21_Witness ==
    /\ Called("_calculate_surcharges")
    /\ "labeling_required" \in DOMAIN call.info
    /\ ~call.info.labeling_required /\ ~call.info.awb_printing
    /\ line_amount(ret.breakdown, "Airway Bill Printing") > 0
    /\ line_amount(ret.breakdown, labels_label(call.quantity)) > 0

(***************************************************************************)
(* The quantity behind the validation gate.                                *)
(***************************************************************************)
\* the record went through lines 46-50 and on to the pricing steps
passed_validation == Called("_calculate_pricing") /\ validation_error(call.info) = ""

\* C22: a record that passes the validation gate of _calculate_pricing has a quantity
\* of at least 1 for the billable weight, the labels fee and the Moffett threshold; no
\* record with a quantity below 1 reaches pricing.
C22_QuantityAtLeastOneOncePastTheGate ==
    /\ passed_validation => call.info.quantity.val >= 1
    /\ Quoted => ret.other_details.quantity >= 1

(***************************************************************************)
(* The service asked for.                                                  *)
(***************************************************************************)
\* the code of the service a record asks for: Economy is 'E', Next Day is 'ND'
requested_code(service_type) ==
    CASE service_type \in {"E", "Economy"} -> "E"
      [] service_type \in {"ND", "Next Day"} -> "ND"
      [] OTHER -> "E"

\* C23: when the record asks for Economy (service_type 'E') and the zone found offers
\* 'E', the quote is priced and reported with the code 'E'; 'ND' is put in its place
\* only when the zone does not offer the code asked for.
C23_OfferedEconomyIsKept ==
    (Called("_calculate_pricing") /\ zone_is_found(call.info) /\ "locals" \in DOMAIN ret)
    => LET asked == requested_code(call.info.service_type)
           offered == service_levels(zone_found(call.info).Service_Level)
       IN  /\ (call.info.service_type = "E" /\ "E" \in offered)
                 => /\ ret.locals.service_code = "E"
                    /\ ret.kind = "success" => ret.other_details.service_type = "E"
           /\ (ret.locals.service_code = "ND" /\ asked # "ND") => asked \notin offered

(***************************************************************************)
(* The district of a postcode: the number of its outward code.             *)
(***************************************************************************)
outward_code(postcode) == first_word(upper(postcode))

district_digits(postcode) ==
    LET outward == outward_code(postcode)
        area == leading(outward, UpperSet, 2)
        rest == SubSeq(outward, Len(area) + 1, Len(outward))
    IN  leading(rest, DigitSet, Len(rest))

has_district(postcode) == strip(postcode) # "" /\ district_digits(postcode) # ""

district_number(postcode) == int(district_digits(postcode))

\* C24: a ranged or '+' entry is compared with the district number of the postcode
\* alone, the digits after the area letters of the outward code, and never with a digit
\* of the inward code: 'PA3 2SW' is 3 and does not match 'PA20+'.
C24_DistrictNumberAloneIsCompared ==
    (/\ Called("_find_zone_by_postcode")
     /\ zones_data # <<>>
     /\ is_ranged(zones_data[1]) \/ is_plus(zones_data[1])
     /\ postcode_letters(call.postcode) = entry_base(zones_data[1])
     /\ has_district(call.postcode))
    => LET n == district_number(call.postcode)
           row == zones_data[1]
       IN  /\ (is_ranged(row) /\ resolves_to(row)) => (entry_low(row) <= n /\ n <= entry_high(row))
           /\ is_plus(row) => (resolves_to(row) <=> n >= entry_min(row))

\* C25: a ranged or '+' entry matches only postcodes whose area letters are exactly
\* the base letters of the entry: an entry with the base 'G' never matches a postcode
\* of the area 'GU'.
C25_EntryMatchesItsOwnAreaOnly ==
    Called("_find_zone_by_postcode") =>
        \A i \in 1..Len(zones_data) :
            (/\ is_ranged(zones_data[i]) \/ is_plus(zones_data[i])
             /\ resolves_to(zones_data[i]))
            => postcode_letters(call.postcode) = entry_base(zones_data[i])

(***************************************************************************)
(* The surcharges that depend on the shipment.                             *)
(***************************************************************************)
conditional_labels ==
    {"Tail Lift", "Moffett Delivery", "AM Delivery", "PM Delivery", "ADR Surcharge",
     "London Surcharge"}

RECURSIVE sum_conditional(_)
sum_conditional(breakdown) ==
    IF breakdown = <<>> THEN 0
    ELSE (IF Head(breakdown).label \in conditional_labels THEN Head(breakdown).amount ELSE 0)
             + sum_conditional(Tail(breakdown))

\* C26: in every successful quote, for any surcharge table, the line 'Other surcharges'
\* is the sum of the conditional surcharges that were applied (tail lift, Moffett, AM or
\* PM, ADR, London), 0 when none was; the labels line and the airway bill line shown
\* are the amounts _calculate_surcharges added to its total.
C26_OtherSurchargesAreTheConditionalOnes ==
    Quoted =>
        LET details == ret.other_details.surcharge_details
            quantity == ret.other_details.quantity
        IN  /\ ret.quote_breakdown["Other surcharges"] = Round2(sum_conditional(details))
            /\ ret.quote_breakdown[labels_key(quantity)]
                  = Round2(line_amount(details, labels_label(quantity)))
            /\ ret.quote_breakdown["Airway bill printing"]
                  = line_amount(details, "Airway Bill Printing")
====
